---------------------------- MODULE Spec2Model ----------------------------
(***************************************************************************)
(* Model of rpg_game: the Inventory manager (inventory.py), the characters  *)
(* (character.py), the weapons (weapon.py) and the victory handler of the  *)
(* game (game.py).                                                         *)
(*                                                                         *)
(* Items are Python objects: an object has an identity, immutable fields   *)
(* (class, name, weight, max_stack, armor_type) and two fields the         *)
(* inventory mutates (quantity, is_equipped).  The inventory's list holds  *)
(* references, so the same object may be listed twice, and the dataclass   *)
(* == compares field by field, so two objects may be equal.  Weights are   *)
(* whole kilograms here, which makes the float arithmetic of the source    *)
(* exact.  The dataclasses are taken as the field lists they declare.      *)
(*                                                                         *)
(* An operation is an operator from the state before the call to the       *)
(* state after it and the value returned; an action applies one operator   *)
(* to the current state and records the call.  SpecStock runs the calls    *)
(* that fill and empty the inventory on consumables, SpecEquip runs every  *)
(* call on armor, weapons and one consumable.                              *)
(*                                                                         *)
(* A character is an object with the fields health, damage, level,         *)
(* experience and weapon; the classes are taken as the methods and fields  *)
(* they declare, and the optional logger of attack as a collaborator that  *)
(* only writes a log.  SpecFight runs the calls on three combatants,       *)
(* SpecGrowth the calls that make the player gain experience, SpecWeapon   *)
(* the weapons' use() between two armed characters.                        *)
(***************************************************************************)
EXTENDS Integers, Sequences, FiniteSets

VARIABLES
    items,            \* Inventory.items: sequence of object references
    quantity,         \* Item.quantity of every object
    is_equipped,      \* Armor.is_equipped / Weapon.is_equipped of every object
    equipped_armor,   \* Inventory.equipped_armor: ArmorType -> object or None
    equipped_weapon,  \* Inventory.equipped_weapon: object or None
    current_weight,   \* Inventory.current_weight
    objs,             \* the objects the caller passes to the inventory
    args_ok,          \* every item passed so far had 1 <= quantity <= max_stack
    call,             \* the last call made on the inventory and what it returned
    chars,            \* the fields of every Character object
    bosses,           \* Game.bosses: sequence of Boss references
    ccall,            \* the last call made on a character, a weapon or the game
    combat,           \* Game.combat_loop: where it stands and the enemy fought
    turn,             \* what the last pass of the combat loop, or the last menu, did
    quests            \* Game.quests: the completed flag of every quest

\* the part of the state the game adds to the inventory and the characters
gamestate == <<combat, turn, quests>>

vars == <<items, quantity, is_equipped, equipped_armor, equipped_weapon,
          current_weight, objs, args_ok, call, chars, bosses, ccall,
          combat, turn, quests>>

---------------------------------------------------------------------------
(* Bounds of the model *)

\* longest item list the model lets add_item build
MaxItems == 4

\* largest quantity argument passed to remove_item
MaxRemove == 2

\* highest health the model lets a heal, a level-up or set_health reach
MaxHealth == 120

\* highest level the model lets level_up and add_experience reach
MaxLevel == 3

\* highest level the model lets a direct call of level_up reach
MaxFightLevel == 2

\* highest experience the model lets add_experience reach
MaxExperience == 300

\* the combats followed in one game, and the items the game starts with
MaxCombats == 2

MaxStock == 2

---------------------------------------------------------------------------
(* Program constants *)

MAX_WEIGHT == 100

MAX_CONSUMABLES == 3

None == "None"

ArmorType == {"HELMET", "CHESTPLATE", "LEGGINGS", "BOOTS", "CHARM"}

---------------------------------------------------------------------------
(* The objects the callers construct.  potionA and potionB are two         *)
(* distinct Consumable objects that are equal field by field when          *)
(* created, and so are the Armor objects helmet and helmetB.  The potions  *)
(* are built with max_stack = 3, the elixir with max_stack = 2 and         *)
(* quantity = 2, the tonic and the antidote with max_stack = 1.            *)

Consumables == {"potionA", "potionB", "elixir", "tonic", "antidote"}

Armors == {"helmet", "helmetB"}

Weapons == {"sword", "bow"}

Objs == Consumables \cup Armors \cup Weapons

\* the objects of the calls that fill and empty the inventory
StockObjs == Consumables

\* the objects of the calls that equip and unequip
EquipObjs == Armors \cup Weapons \cup {"tonic"}

\* the class of the object (isinstance)
cls(o) ==
    IF o \in Consumables THEN "Consumable"
    ELSE IF o \in Armors THEN "Armor"
    ELSE "Weapon"

\* Item.item_type, set by each subclass's __post_init__
item_type(o) ==
    IF o \in Consumables THEN "CONSUMABLE"
    ELSE IF o \in Armors THEN "ARMOR"
    ELSE "WEAPON"

name(o) ==
    CASE o \in {"potionA", "potionB"} -> "Health Potion"
      [] o = "elixir" -> "Stamina Elixir"
      [] o = "tonic" -> "Tonic"
      [] o = "antidote" -> "Antidote"
      [] o \in {"helmet", "helmetB"} -> "Leather Helmet"
      [] o = "sword" -> "Rusty Sword"
      [] o = "bow" -> "Hunter's Bow"

\* Item.weight, in whole kilograms
weight(o) ==
    CASE o \in {"potionA", "potionB"} -> 25
      [] o = "elixir" -> 15
      [] o \in {"tonic", "antidote"} -> 25
      [] o \in Armors -> 30
      [] o = "sword" -> 35
      [] o = "bow" -> 30

\* Item.max_stack
max_stack(o) ==
    CASE o \in {"potionA", "potionB"} -> 3
      [] o = "elixir" -> 2
      [] OTHER -> 1

\* Armor.armor_type
armor_type(o) == "HELMET"

\* Item.quantity the object is constructed with
InitQuantity(o) ==
    CASE o = "elixir" -> 2
      [] OTHER -> 1

---------------------------------------------------------------------------
(* Helpers.  s is a record of the inventory's fields and of the objects'   *)
(* mutable fields.                                                         *)

\* the dataclass-generated __eq__: same class and every field equal (the
\* fields left out here, description, value and the like, are equal for
\* objects of the same name)
ItemEq(s, a, b) ==
    /\ cls(a) = cls(b)
    /\ name(a) = name(b)
    /\ weight(a) = weight(b)
    /\ item_type(a) = item_type(b)
    /\ max_stack(a) = max_stack(b)
    /\ s.quantity[a] = s.quantity[b]
    /\ s.is_equipped[a] = s.is_equipped[b]

\* the comparison list.__contains__, list.index and == make: identity first
Matches(s, a, b) == a = b \/ ItemEq(s, a, b)

\* Python's `x in self.items`: some entry is x or equals x
In(s, o) == \E i \in 1..Len(s.items) : Matches(s, s.items[i], o)

\* the object itself is an entry of the list
Held(s, o) == \E i \in 1..Len(s.items) : s.items[i] = o

\* list.pop(i), for the 1-based index i
RemoveAt(seq, i) == SubSeq(seq, 1, i - 1) \o SubSeq(seq, i + 1, Len(seq))

RECURSIVE SumWeights(_, _)
SumWeights(s, seq) ==
    IF seq = <<>> THEN 0
    ELSE weight(Head(seq)) * s.quantity[Head(seq)] + SumWeights(s, Tail(seq))

\* Inventory.get_total_weight
get_total_weight(s) == SumWeights(s, s.items)

\* the inventory and the objects as they are now
State ==
    [items |-> items, quantity |-> quantity, is_equipped |-> is_equipped,
     equipped_armor |-> equipped_armor, equipped_weapon |-> equipped_weapon,
     current_weight |-> current_weight]

\* the state a call leaves and the value it returns
Return(s, r) ==
    [items |-> s.items, quantity |-> s.quantity, is_equipped |-> s.is_equipped,
     equipped_armor |-> s.equipped_armor, equipped_weapon |-> s.equipped_weapon,
     current_weight |-> s.current_weight, ret |-> r]

\* the state part of what a call returned
StateOf(r) ==
    [items |-> r.items, quantity |-> r.quantity, is_equipped |-> r.is_equipped,
     equipped_armor |-> r.equipped_armor, equipped_weapon |-> r.equipped_weapon,
     current_weight |-> r.current_weight]

---------------------------------------------------------------------------
(* Inventory operations *)

\* add_item's weight check
WeightExceeded(s, item) ==
    s.current_weight + weight(item) * s.quantity[item] > MAX_WEIGHT

\* add_item's test of one entry for a stack to merge into
CanStack(s, i, item) ==
    /\ cls(s.items[i]) = "Consumable"
    /\ name(s.items[i]) = name(item)
    /\ s.quantity[s.items[i]] < max_stack(s.items[i])

\* index of the first entry add_item merges into, 0 when there is none
StackIndex(s, item) ==
    IF \E i \in 1..Len(s.items) : CanStack(s, i, item)
    THEN CHOOSE i \in 1..Len(s.items) :
            /\ CanStack(s, i, item)
            /\ \A j \in 1..(i - 1) : ~CanStack(s, j, item)
    ELSE 0

\* add_item's count of consumable entries
ConsumableEntries(s) ==
    Cardinality({i \in 1..Len(s.items) : item_type(s.items[i]) = "CONSUMABLE"})

\* mutant of CapReached: the cap is compared with > instead of >=
CapReached_OffByOne(s) == ConsumableEntries(s) > MAX_CONSUMABLES

\* add_item's cap check on a consumable that found no stack
CapReached(s) == ConsumableEntries(s) >= MAX_CONSUMABLES

\* add_item: `existing.quantity += item.quantity`, then
\* `self.current_weight += item.weight * item.quantity`, which reads
\* item.quantity again, after the update
Merge(s, existing, item) ==
    LET q == [s.quantity EXCEPT ![existing] = @ + s.quantity[item]]
    IN  Return([s EXCEPT !.quantity = q,
                         !.current_weight = @ + weight(item) * q[item]],
               TRUE)

\* add_item: append the reference and charge the weight
AppendItem(s, item) ==
    Return([s EXCEPT !.items = Append(@, item),
                     !.current_weight = @ + weight(item) * s.quantity[item]],
           TRUE)

\* mutant of add_item: the weight is charged before the cap is checked
add_item_ChargesBeforeCap(s, item) ==
    IF WeightExceeded(s, item) THEN Return(s, FALSE)
    ELSE IF item_type(item) = "CONSUMABLE"
    THEN IF StackIndex(s, item) # 0
         THEN Merge(s, s.items[StackIndex(s, item)], item)
         ELSE IF CapReached(s)
         THEN Return([s EXCEPT !.current_weight =
                                   @ + weight(item) * s.quantity[item]], FALSE)
         ELSE AppendItem(s, item)
    ELSE AppendItem(s, item)

add_item(s, item) ==
    IF WeightExceeded(s, item) THEN Return(s, FALSE)
    ELSE IF item_type(item) = "CONSUMABLE"
    THEN IF StackIndex(s, item) # 0
         THEN Merge(s, s.items[StackIndex(s, item)], item)
         ELSE IF CapReached(s) THEN Return(s, FALSE)
         ELSE AppendItem(s, item)
    ELSE AppendItem(s, item)

\* index of the first entry remove_item's `inv_item == item` matches, 0 when none
MatchIndex(s, item) ==
    IF In(s, item)
    THEN CHOOSE i \in 1..Len(s.items) :
            /\ Matches(s, s.items[i], item)
            /\ \A j \in 1..(i - 1) : ~Matches(s, s.items[j], item)
    ELSE 0

\* remove_item's two branches on the matched entry
RemoveMatched(s, i, item, n) ==
    LET inv_item == s.items[i]
    IN  IF s.quantity[inv_item] > n
        THEN Return([s EXCEPT !.quantity[inv_item] = @ - n,
                              !.current_weight = @ - weight(item) * n],
                    TRUE)
        ELSE Return([s EXCEPT !.items = RemoveAt(@, i),
                              !.current_weight =
                                  @ - weight(item) * s.quantity[inv_item]],
                    TRUE)

remove_item(s, item, n) ==
    IF MatchIndex(s, item) = 0 THEN Return(s, FALSE)
    ELSE RemoveMatched(s, MatchIndex(s, item), item, n)

\* mutant of unequip_armor: the slot is cleared, the item's flag is not
unequip_armor_KeepsFlag(s, at) ==
    IF s.equipped_armor[at] = None THEN Return(s, FALSE)
    ELSE Return([s EXCEPT !.equipped_armor[at] = None], TRUE)

unequip_armor(s, at) ==
    IF s.equipped_armor[at] = None THEN Return(s, FALSE)
    ELSE Return([s EXCEPT !.is_equipped[s.equipped_armor[at]] = FALSE,
                          !.equipped_armor[at] = None],
                TRUE)

\* mutant of equip_armor: the slot's occupant is replaced, not unequipped
equip_armor_NoUnequip(s, armor) ==
    IF ~In(s, armor) THEN Return(s, FALSE)
    ELSE Return([s EXCEPT !.is_equipped[armor] = TRUE,
                          !.equipped_armor[armor_type(armor)] = armor],
                TRUE)

equip_armor(s, armor) ==
    IF ~In(s, armor) THEN Return(s, FALSE)
    ELSE LET u == StateOf(unequip_armor(s, armor_type(armor)))
         IN  Return([u EXCEPT !.is_equipped[armor] = TRUE,
                              !.equipped_armor[armor_type(armor)] = armor],
                    TRUE)

\* mutant of unequip_weapon: the weapon leaves the slot and stays flagged
unequip_weapon_KeepsFlag(s) ==
    IF s.equipped_weapon = None THEN Return(s, FALSE)
    ELSE Return([s EXCEPT !.equipped_weapon = None], TRUE)

unequip_weapon(s) ==
    IF s.equipped_weapon = None THEN Return(s, FALSE)
    ELSE Return([s EXCEPT !.is_equipped[s.equipped_weapon] = FALSE,
                          !.equipped_weapon = None],
                TRUE)

\* mutant of equip_weapon: the membership check is left out
equip_weapon_NoCheck(s, weapon) ==
    LET u == StateOf(unequip_weapon(s))
    IN  Return([u EXCEPT !.is_equipped[weapon] = TRUE,
                         !.equipped_weapon = weapon],
               TRUE)

equip_weapon(s, weapon) ==
    IF ~In(s, weapon) THEN Return(s, FALSE)
    ELSE LET u == StateOf(unequip_weapon(s))
         IN  Return([u EXCEPT !.is_equipped[weapon] = TRUE,
                              !.equipped_weapon = weapon],
                    TRUE)

use_consumable(s, consumable) ==
    IF ~In(s, consumable) THEN Return(s, FALSE)
    ELSE remove_item(s, consumable, 1)

---------------------------------------------------------------------------
(* Weapons (weapon.py) *)

WeaponKinds == {"Rock", "Paper", "Scissors", "Lizard", "Spock"}

\* Weapon.damage_bonus, as the __init__ of each subclass sets it
damage_bonus(w) ==
    CASE w = "Rock" -> 5
      [] w = "Paper" -> 3
      [] w = "Scissors" -> 4
      [] w = "Lizard" -> 3
      [] w = "Spock" -> 5

\* the three ways the message of use() ends
CriticalHit == "Critical hit!"

NotVeryEffective == "Not very effective..."

Plain == "plain"

\* The use() of each subclass follows; tw is target.weapon, a kind or None.

\* mutant of Rock_use: the rock crushes the lizard too
Rock_use_CrushesLizard(tw) ==
    IF tw \in {"Scissors", "Lizard"} THEN CriticalHit
    ELSE IF tw = "Paper" THEN NotVeryEffective
    ELSE Plain

Rock_use(tw) ==
    IF tw = "Scissors" THEN CriticalHit
    ELSE IF tw = "Paper" THEN NotVeryEffective
    ELSE Plain

\* mutant of Paper_use: the paper beats the scissors that cut it
Paper_use_CutsBack(tw) ==
    IF tw = "Rock" \/ tw = "Scissors" THEN CriticalHit
    ELSE Plain

Paper_use(tw) ==
    IF tw = "Rock" THEN CriticalHit
    ELSE IF tw = "Scissors" THEN NotVeryEffective
    ELSE Plain

Scissors_use(tw) ==
    IF tw = "Paper" \/ tw = "Lizard" THEN CriticalHit
    ELSE IF tw = "Rock" \/ tw = "Spock" THEN NotVeryEffective
    ELSE Plain

\* mutant of Lizard_use: the lizard is not weak against the rock
Lizard_use_ShrugsOffRock(tw) ==
    IF tw = "Spock" \/ tw = "Paper" THEN CriticalHit
    ELSE IF tw = "Scissors" THEN NotVeryEffective
    ELSE Plain

Lizard_use(tw) ==
    IF tw = "Spock" \/ tw = "Paper" THEN CriticalHit
    ELSE IF tw = "Rock" \/ tw = "Scissors" THEN NotVeryEffective
    ELSE Plain

\* mutant of Spock_use: the Lizard is no threat to Spock
Spock_use_IgnoresLizard(tw) ==
    IF tw = "Rock" \/ tw = "Scissors" THEN CriticalHit
    ELSE IF tw = "Paper" THEN NotVeryEffective
    ELSE Plain

Spock_use(tw) ==
    IF tw = "Rock" \/ tw = "Scissors" THEN CriticalHit
    ELSE IF tw = "Lizard" \/ tw = "Paper" THEN NotVeryEffective
    ELSE Plain

\* weapon.use(target), dispatched on the class of the weapon
use(w, tw) ==
    CASE w = "Rock" -> Rock_use(tw)
      [] w = "Paper" -> Paper_use(tw)
      [] w = "Scissors" -> Scissors_use(tw)
      [] w = "Lizard" -> Lizard_use(tw)
      [] w = "Spock" -> Spock_use(tw)

---------------------------------------------------------------------------
(* Characters (character.py).  cs maps every character to its fields.      *)

INITIAL_HEALTH == 100

INITIAL_DAMAGE == 10

\* the ceiling of Player.special_ability
HEALTH_CEILING == 100

\* the heal of HealerSidekick.special_ability
HEAL_AMOUNT == 15

\* the experience add_experience divides by, and handle_victory multiplies
XP_PER_LEVEL == 100

\* the experience handle_victory grants for an enemy and for a Boss
XP_ENEMY == 20

XP_BOSS == 100

Characters == {"player", "goblin", "boss"}

\* the Boss objects setup_game puts in the roster for the three quests;
\* "boss" is the one whose fights are followed
Bosses == {"boss", "sorcerer", "dragon"}

\* the class of the character (isinstance, method dispatch)
char_class(c) ==
    CASE c = "player" -> "Player"
      [] c = "goblin" -> "Goblin"
      [] c \in Bosses -> "Boss"

\* boss.name
boss_name(b) ==
    CASE b = "boss" -> "Goblin King"
      [] b = "sorcerer" -> "Dark Sorcerer"
      [] b = "dragon" -> "Dragon Lord"

\* Character.__init__
Character(health, damage) ==
    [health |-> health, damage |-> damage, level |-> 1, experience |-> 0,
     weapon |-> None]

\* Player("Hero", INITIAL_HEALTH, INITIAL_DAMAGE), Goblin() and a
\* Boss(name, 60, 50), the boss of the 50-damage scenario
Constructed ==
    [c \in Characters |->
        CASE c = "player" -> Character(INITIAL_HEALTH, INITIAL_DAMAGE)
          [] c = "goblin" -> Character(30, 5)
          [] c = "boss" -> Character(60, 50)]

\* the same characters after the caller has given the player a Rock
Armed == [Constructed EXCEPT !["player"].weapon = "Rock"]

Max(a, b) == IF a >= b THEN a ELSE b

Min(a, b) == IF a <= b THEN a ELSE b

\* int(x * 0.2) for an integer x: a fifth, truncated towards zero
IntOfFifth(x) == IF x >= 0 THEN x \div 5 ELSE -((-x) \div 5)

\* the characters a call leaves, the value it returns and the number of
\* random.random() calls it made
Done(cs, r, n) == [chars |-> cs, ret |-> r, rolls |-> n]

\* mutant of take_damage: the health is not floored at 0
take_damage_NoFloor(cs, c, amount) ==
    Done([cs EXCEPT ![c].health = @ - amount], None, 0)

take_damage(cs, c, amount) ==
    Done([cs EXCEPT ![c].health = Max(0, @ - amount)], None, 0)

get_health(cs, c) == cs[c].health

\* the set_health that is in force, the second definition in the class
set_health(cs, c, new_health) ==
    Done([cs EXCEPT ![c].health = IF new_health < 0 THEN 0 ELSE new_health],
         None, 0)

\* mutant of Character_attack: the weapon's bonus is left out
Character_attack_NoBonus(cs, self, enemy) ==
    Done(set_health(cs, enemy, get_health(cs, enemy) - cs[self].damage).chars,
         cs[self].damage, 0)

\* Character.attack, the second definition in the class (logger = None)
\* mutant of Character_attack: a critical matchup doubles the damage
Character_attack_Matchup(cs, self, enemy) ==
    LET plain_damage ==
            cs[self].damage + (IF cs[self].weapon # None
                               THEN damage_bonus(cs[self].weapon) ELSE 0)
        total_damage ==
            IF cs[self].weapon # None
                   /\ use(cs[self].weapon, cs[enemy].weapon) = CriticalHit
            THEN 2 * plain_damage
            ELSE plain_damage
        current_health == get_health(cs, enemy)
    IN  Done(set_health(cs, enemy, current_health - total_damage).chars,
             total_damage, 0)

Character_attack(cs, self, enemy) ==
    LET total_damage ==
            cs[self].damage + (IF cs[self].weapon # None
                               THEN damage_bonus(cs[self].weapon) ELSE 0)
        current_health == get_health(cs, enemy)
    IN  Done(set_health(cs, enemy, current_health - total_damage).chars,
             total_damage, 0)

\* mutant of Boss_attack: the second strike is not added to the total
Boss_attack_SingleTotal(cs, self, enemy, roll) ==
    LET base == Character_attack(cs, self, enemy)
    IN  IF roll
        THEN Done(take_damage(base.chars, enemy, base.ret).chars, base.ret, 1)
        ELSE Done(base.chars, base.ret, 1)

\* Boss.attack; roll is the outcome of its one `random.random() < 0.2`
Boss_attack(cs, self, enemy, roll) ==
    LET base == Character_attack(cs, self, enemy)
        damage_dealt == base.ret
        extra_damage == damage_dealt
    IN  IF roll
        THEN Done(take_damage(base.chars, enemy, extra_damage).chars,
                  damage_dealt + extra_damage, 1)
        ELSE Done(base.chars, damage_dealt, 1)

\* mutant of attack: the attacker pays one health point for the blow
attack_Recoil(cs, self, enemy, roll) ==
    LET r == IF char_class(self) = "Boss" THEN Boss_attack(cs, self, enemy, roll)
             ELSE Character_attack(cs, self, enemy)
    IN  Done(take_damage(r.chars, self, 1).chars, r.ret, r.rolls)

\* x.attack(enemy), dispatched on the class of x
attack(cs, self, enemy, roll) ==
    IF char_class(self) = "Boss" THEN Boss_attack(cs, self, enemy, roll)
    ELSE Character_attack(cs, self, enemy)

level_up(cs, c, levels) ==
    Done([cs EXCEPT ![c].level = @ + levels,
                    ![c].health = @ + 10 * levels,
                    ![c].damage = @ + 2 * levels],
         None, 0)

\* mutant of add_experience: one level at most is gained in a call
add_experience_SingleLevel(cs, c, amount) ==
    LET gained == [cs EXCEPT ![c].experience = @ + amount]
    IN  IF gained[c].experience \div XP_PER_LEVEL > 0
        THEN level_up(gained, c, 1)
        ELSE Done(gained, None, 0)

add_experience(cs, c, amount) ==
    LET gained == [cs EXCEPT ![c].experience = @ + amount]
        levels_gained == gained[c].experience \div XP_PER_LEVEL
    IN  IF levels_gained > 0 THEN level_up(gained, c, levels_gained)
        ELSE Done(gained, None, 0)

\* mutant of Player_special_ability: the heal is not capped
Player_special_ability_NoCap(cs, c) ==
    Done([cs EXCEPT ![c].health = @ + IntOfFifth(get_health(cs, c))],
         IntOfFifth(get_health(cs, c)), 0)

\* Player.special_ability; the value returned is the heal the message names
Player_special_ability(cs, c) ==
    LET heal_amount == IntOfFifth(get_health(cs, c))
    IN  Done([cs EXCEPT ![c].health = Min(HEALTH_CEILING, @ + heal_amount)],
             heal_amount, 0)

\* HealerSidekick.special_ability(target); it reads nothing of the healer
\* but the name
HealerSidekick_special_ability(cs, target) ==
    Done(set_health(cs, target, get_health(cs, target) + HEAL_AMOUNT).chars,
         HEAL_AMOUNT, 0)

\* x.special_ability(), dispatched on the class of x: a Goblin's and a
\* Boss's only return a message
special_ability(cs, c) ==
    IF char_class(c) = "Player" THEN Player_special_ability(cs, c)
    ELSE Done(cs, None, 0)

---------------------------------------------------------------------------
(* Game (game.py): the player is the character "player" *)

\* Game.rest
rest(cs) == set_health(cs, "player", INITIAL_HEALTH)

\* the reference is an entry of the roster
InRoster(bs, enemy) == \E i \in 1..Len(bs) : bs[i] = enemy

\* list.remove: the first entry that is the reference leaves the list
RemoveFirst(bs, enemy) ==
    RemoveAt(bs, CHOOSE i \in 1..Len(bs) :
                    /\ bs[i] = enemy
                    /\ \A j \in 1..(i - 1) : bs[j] # enemy)

\* mutant of handle_victory: every enemy is worth the same
handle_victory_FlatReward(cs, bs, enemy) ==
    LET granted == add_experience(cs, "player", XP_ENEMY).chars
        levelled ==
            IF granted["player"].experience
                   >= granted["player"].level * XP_PER_LEVEL
            THEN level_up(granted, "player", 1).chars
            ELSE granted
    IN  IF char_class(enemy) = "Boss"
        THEN IF InRoster(bs, enemy)
             THEN [chars |-> levelled, bosses |-> RemoveFirst(bs, enemy),
                   ret |-> None]
             ELSE [chars |-> levelled, bosses |-> bs, ret |-> "ValueError"]
        ELSE [chars |-> levelled, bosses |-> bs, ret |-> None]

\* Game.handle_victory; removing a Boss that is not in the roster raises
\* ValueError after the experience has been granted
handle_victory(cs, bs, enemy) ==
    LET xp_reward == IF char_class(enemy) # "Boss" THEN XP_ENEMY ELSE XP_BOSS
        granted == add_experience(cs, "player", xp_reward).chars
        levelled ==
            IF granted["player"].experience
                   >= granted["player"].level * XP_PER_LEVEL
            THEN level_up(granted, "player", 1).chars
            ELSE granted
    IN  IF char_class(enemy) = "Boss"
        THEN IF InRoster(bs, enemy)
             THEN [chars |-> levelled, bosses |-> RemoveFirst(bs, enemy),
                   ret |-> None]
             ELSE [chars |-> levelled, bosses |-> bs, ret |-> "ValueError"]
        ELSE [chars |-> levelled, bosses |-> bs, ret |-> None]

\* self.player.inventory.use_item(item): the class Inventory defines no
\* use_item, so the call raises AttributeError and changes nothing
Inventory_use_item(s, item) == Return(s, "AttributeError")

\* the texts typed at the prompt for an item number
Texts == {"abc", "-1", "0", "1", "2", "9"}

\* int(text) succeeds
IsNumber(text) == text # "abc"

\* int(text), for the texts it succeeds on
int(text) ==
    CASE text = "-1" -> -1
      [] text = "0" -> 0
      [] text = "1" -> 1
      [] text = "2" -> 2
      [] text = "9" -> 9

\* the place, counted from 1, of seq[k] as Python indexes a list: from the
\* front for 0 <= k < len, from the back for -len <= k < 0; 0 stands for
\* IndexError
PyIndex(seq, k) ==
    IF 0 <= k /\ k < Len(seq) THEN k + 1
    ELSE IF -Len(seq) <= k /\ k < 0 THEN Len(seq) + k + 1
    ELSE 0

\* the item the try block of use_item / use_item_in_combat gets from the
\* list shown, None when it returns on 0 or catches ValueError / IndexError
Picked(seq, text) ==
    IF ~IsNumber(text) THEN None
    ELSE IF int(text) = 0 THEN None
    ELSE IF PyIndex(seq, int(text) - 1) = 0 THEN None
    ELSE seq[PyIndex(seq, int(text) - 1)]

\* the inventory a menu leaves, the item it picked and the exception that
\* left it, if any
Menu(s, item, r) == [inv |-> s, picked |-> item, ret |-> r]

\* Game.use_item
use_item(s, text) ==
    IF s.items = <<>> THEN Menu(s, None, None)
    ELSE LET item == Picked(s.items, text)
         IN  IF item = None THEN Menu(s, None, None)
             ELSE IF cls(item) = "Consumable"
             THEN Menu(StateOf(Inventory_use_item(s, item)), item,
                       Inventory_use_item(s, item).ret)
             ELSE Menu(s, item, None)

\* the list use_item_in_combat shows
IsConsumable(o) == cls(o) = "Consumable"

\* Game.use_item_in_combat
use_item_in_combat(s, text) ==
    LET consumables == SelectSeq(s.items, IsConsumable)
    IN  IF consumables = <<>> THEN Menu(s, None, None)
        ELSE LET item == Picked(consumables, text)
             IN  IF item = None THEN Menu(s, None, None)
                 ELSE Menu(StateOf(Inventory_use_item(s, item)), item,
                           Inventory_use_item(s, item).ret)

\* mutant of is_alive: nobody is ever found dead
is_alive_Always(cs, c) == cs[c].health >= 0

\* Character.is_alive
is_alive(cs, c) == cs[c].health > 0

\* what one pass of the loop of combat_loop leaves: the characters, the
\* roster and the inventory, where the combat stands, how many times the
\* enemy attacked, the item picked and the exception that ended it, if any
Pass(cs, bs, s, st, n, item, r) ==
    [chars |-> cs, bosses |-> bs, inv |-> s, state |-> st, hits |-> n,
     picked |-> item, ret |-> r]

\* mutant of enemys_turn: the player's defeat is not noticed
enemys_turn_NoDefeatCheck(cs, bs, s, enemy, crit) ==
    Pass(attack(cs, enemy, "player", crit).chars, bs, s, "PlayerTurn", 1,
         None, None)

\* combat_loop, the enemy's turn: the enemy attacks and the player's defeat
\* ends the combat; otherwise the loop's condition holds, as the enemy has
\* just been found alive
enemys_turn(cs, bs, s, enemy, crit) ==
    LET struck == attack(cs, enemy, "player", crit).chars
    IN  IF ~is_alive(struck, "player")
        THEN Pass(struck, bs, s, "Defeat", 1, None, None)
        ELSE Pass(struck, bs, s, "PlayerTurn", 1, None, None)

\* mutant of after_action: the enemy's defeat is not looked for
after_action_NoVictoryCheck(cs, bs, s, enemy, crit) ==
    enemys_turn(cs, bs, s, enemy, crit)

\* combat_loop, after the player's action: a defeated enemy ends the combat
\* through handle_victory, any other takes its turn
after_action(cs, bs, s, enemy, crit) ==
    IF ~is_alive(cs, enemy)
    THEN LET won == handle_victory(cs, bs, enemy)
         IN  Pass(won.chars, won.bosses, s,
                  IF won.ret = None THEN "Victory" ELSE "Raised", 0, None,
                  won.ret)
    ELSE enemys_turn(cs, bs, s, enemy, crit)

\* mutant of try_to_flee: the enemy strikes the fleeing player
try_to_flee_Pursued(cs, bs, s, enemy, roll, crit) ==
    IF roll
    THEN Pass(attack(cs, enemy, "player", crit).chars, bs, s, "Fled", 1,
              None, None)
    ELSE after_action(cs, bs, s, enemy, crit)

\* combat_loop, choice "4": roll is random.random() < 0.5
try_to_flee(cs, bs, s, enemy, roll, crit) ==
    IF roll THEN Pass(cs, bs, s, "Fled", 0, None, None)
    ELSE after_action(cs, bs, s, enemy, crit)

\* combat_loop, choice "3": use_item_in_combat, then continue; an exception
\* of the menu leaves combat_loop
use_item_turn(cs, bs, s, text) ==
    LET used == use_item_in_combat(s, text)
    IN  Pass(cs, bs, used.inv,
             IF used.ret = None THEN "PlayerTurn" ELSE "Raised", 0,
             used.picked, used.ret)

\* the answers to "Choose an action: ": "9" is any text that is not on the
\* menu
Choices == {"1", "2", "3", "4", "9"}

\* one pass of the loop of combat_loop, from the prompt to the next prompt
\* or to the return
combat_loop(cs, bs, s, enemy, choice, text, roll, crit) ==
    CASE choice = "1" ->
             after_action(attack(cs, "player", enemy, FALSE).chars, bs, s,
                          enemy, crit)
      [] choice = "2" ->
             after_action(special_ability(cs, "player").chars, bs, s, enemy,
                          crit)
      [] choice = "3" -> use_item_turn(cs, bs, s, text)
      [] choice = "4" -> try_to_flee(cs, bs, s, enemy, roll, crit)
      [] OTHER -> after_action(cs, bs, s, enemy, crit)

\* the targets of the quests setup_game creates
Quests == {"Goblin King", "Dark Sorcerer", "Dragon Lord"}

\* self.quests in the order of the list, each quest named by the target of
\* its objective
QuestList == <<"Goblin King", "Dark Sorcerer", "Dragon Lord">>

\* quest["reward"]
reward(q) ==
    CASE q = "Goblin King" -> [xp |-> 100, gold |-> 50]
      [] q = "Dark Sorcerer" -> [xp |-> 200, gold |-> 100]
      [] q = "Dragon Lord" -> [xp |-> 300, gold |-> 150]

\* not any(boss.name == target for boss in self.bosses)
NoBossNamed(bs, target) == \A i \in 1..Len(bs) : boss_name(bs[i]) # target

\* the quests update_quests completes: those not completed whose target is
\* no more in the roster
Due(bs, qs) ==
    {i \in 1..Len(QuestList) :
        ~qs[QuestList[i]] /\ NoBossNamed(bs, QuestList[i])}

\* Game.update_quests: the first quest that is due is marked completed, and
\* the next statement, self.player.inventory.gold += reward["gold"], raises
\* AttributeError, an Inventory having no gold; add_experience is not
\* reached and the loop is left
update_quests(cs, bs, qs) ==
    IF Due(bs, qs) = {}
    THEN [chars |-> cs, quests |-> qs, ret |-> None]
    ELSE LET first == CHOOSE i \in Due(bs, qs) : \A j \in Due(bs, qs) : i <= j
         IN  [chars |-> cs,
              quests |-> [qs EXCEPT ![QuestList[first]] = TRUE],
              ret |-> "AttributeError"]

\* one pass of the loop of Game.combat(player, enemy): both attack in turn,
\* the player first; the call returns True once the enemy's health is 0,
\* False once the player's is, and otherwise the loop goes on
Game_combat(cs, player, enemy, crit) ==
    LET dealt == attack(cs, player, enemy, FALSE).chars
        received == attack(dealt, enemy, player, crit).chars
    IN  IF get_health(dealt, enemy) <= 0
        THEN [chars |-> dealt, state |-> "Won", hits |-> 0, ret |-> TRUE]
        ELSE IF get_health(received, player) <= 0
        THEN [chars |-> received, state |-> "Lost", hits |-> 1,
              ret |-> FALSE]
        ELSE [chars |-> received, state |-> "AutoFight", hits |-> 1,
              ret |-> None]

---------------------------------------------------------------------------
\* the value of ccall before any call
NoCall == [op |-> "__init__", self |-> None, target |-> None, ret |-> None,
           rolls |-> 0]

\* Game.__init__: no combat is running, no menu has been answered
NoCombat == [state |-> "NoCombat", enemy |-> None, xp0 |-> 0, n |-> 0]

NoTurn == [choice |-> None, hits |-> 0, roll |-> FALSE, picked |-> None,
           ret |-> None]

\* Inventory.__init__, the caller's objects and the characters as
\* constructed, and the roster, the combat and the quests of the game
Setup(universe, cs, bs) ==
    /\ objs = universe
    /\ items = <<>>
    /\ quantity = [o \in Objs |-> InitQuantity(o)]
    /\ is_equipped = [o \in Objs |-> FALSE]
    /\ equipped_armor = [at \in ArmorType |-> None]
    /\ equipped_weapon = None
    /\ current_weight = 0
    /\ args_ok = TRUE
    /\ call = [op |-> "__init__", arg |-> None, ret |-> TRUE]
    /\ chars = cs
    /\ bosses = bs
    /\ ccall = NoCall
    /\ combat = NoCombat
    /\ turn = NoTurn
    /\ quests = [q \in Quests |-> FALSE]

\* a game whose roster holds the one boss followed
Init(universe, cs) == Setup(universe, cs, <<"boss">>)

\* the roster setup_game builds
Roster == <<"boss", "sorcerer", "dragon">>

---------------------------------------------------------------------------
(* Actions: one call each *)

\* the item passed in has 1 <= quantity <= max_stack
ArgOk(item) == 1 <= quantity[item] /\ quantity[item] <= max_stack(item)

Apply(r, op, arg) ==
    /\ items' = r.items
    /\ quantity' = r.quantity
    /\ is_equipped' = r.is_equipped
    /\ equipped_armor' = r.equipped_armor
    /\ equipped_weapon' = r.equipped_weapon
    /\ current_weight' = r.current_weight
    /\ call' = [op |-> op, arg |-> arg, ret |-> r.ret]
    /\ UNCHANGED <<objs, chars, bosses, ccall, gamestate>>

AddItem ==
    \E item \in objs :
        /\ Len(add_item(State, item).items) <= MaxItems
        /\ Apply(add_item(State, item), "add_item", item)
        /\ args_ok' = (args_ok /\ ArgOk(item))

RemoveItem ==
    \E item \in objs, n \in 1..MaxRemove :
        /\ Apply(remove_item(State, item, n), "remove_item", item)
        /\ args_ok' = (args_ok /\ ArgOk(item))

UseConsumable ==
    \E consumable \in Consumables \cap objs :
        /\ Apply(use_consumable(State, consumable), "use_consumable", consumable)
        /\ args_ok' = (args_ok /\ ArgOk(consumable))

EquipArmor ==
    \E armor \in Armors \cap objs :
        /\ Apply(equip_armor(State, armor), "equip_armor", armor)
        /\ args_ok' = (args_ok /\ ArgOk(armor))

UnequipArmor ==
    \E at \in ArmorType :
        /\ Apply(unequip_armor(State, at), "unequip_armor", at)
        /\ UNCHANGED args_ok

EquipWeapon ==
    \E weapon \in Weapons \cap objs :
        /\ Apply(equip_weapon(State, weapon), "equip_weapon", weapon)
        /\ args_ok' = (args_ok /\ ArgOk(weapon))

UnequipWeapon ==
    /\ Apply(unequip_weapon(State), "unequip_weapon", None)
    /\ UNCHANGED args_ok

\* the calls that fill and empty the inventory
NextStock ==
    \/ AddItem
    \/ RemoveItem
    \/ UseConsumable

\* every call
NextEquip ==
    \/ AddItem
    \/ RemoveItem
    \/ UseConsumable
    \/ EquipArmor
    \/ UnequipArmor
    \/ EquipWeapon
    \/ UnequipWeapon

InitStock == Init(StockObjs, Constructed)

InitEquip == Init(EquipObjs, Constructed)

SpecStock == InitStock /\ [][NextStock]_vars

SpecEquip == InitEquip /\ [][NextEquip]_vars

---------------------------------------------------------------------------
(* Actions on the characters: one call each *)

\* what the calls on characters leave alone
invstate ==
    <<items, quantity, is_equipped, equipped_armor, equipped_weapon,
      current_weight, objs, args_ok, call>>

\* the amounts passed to take_damage: a blow and a fatal blow
DamageAmounts == {15, 200}

\* the values passed to set_health
HealthValues == {-10, 50, 120}

\* the amounts passed to add_experience
XpAmounts == {0, 20, 100, 250}

\* the characters each one fights: the player the villains, a villain the
\* player
Opponents(self) ==
    IF self = "player" THEN {"goblin", "boss"} ELSE {"player"}

\* the outcomes of the critical roll an attacker of this class can have
Rolls(self) == IF char_class(self) = "Boss" THEN BOOLEAN ELSE {FALSE}

\* the model follows the characters up to these bounds
InBounds(cs) ==
    \A c \in Characters :
        /\ cs[c].health <= MaxHealth
        /\ cs[c].level <= MaxLevel
        /\ cs[c].experience <= MaxExperience

CApply(r, op, self, target) ==
    /\ chars' = r.chars
    /\ ccall' = [op |-> op, self |-> self, target |-> target, ret |-> r.ret,
                 rolls |-> r.rolls]
    /\ UNCHANGED <<invstate, bosses, gamestate>>

TakeDamage(cast) ==
    \E c \in cast, amount \in DamageAmounts :
        /\ InBounds(take_damage(chars, c, amount).chars)
        /\ CApply(take_damage(chars, c, amount), "take_damage", c, None)

SetHealth ==
    \E new_health \in HealthValues :
        /\ InBounds(set_health(chars, "player", new_health).chars)
        /\ CApply(set_health(chars, "player", new_health), "set_health",
                  "player", None)

Attack ==
    \E self \in Characters :
        \E enemy \in Opponents(self), roll \in Rolls(self) :
            /\ InBounds(attack(chars, self, enemy, roll).chars)
            /\ CApply(attack(chars, self, enemy, roll), "attack", self, enemy)

LevelUp ==
    /\ chars["player"].level < MaxFightLevel
    /\ InBounds(level_up(chars, "player", 1).chars)
    /\ CApply(level_up(chars, "player", 1), "level_up", "player", None)

Special ==
    \E c \in Characters :
        /\ InBounds(special_ability(chars, c).chars)
        /\ CApply(special_ability(chars, c), "special_ability", c, None)

Heal ==
    /\ InBounds(HealerSidekick_special_ability(chars, "player").chars)
    /\ CApply(HealerSidekick_special_ability(chars, "player"),
              "HealerSidekick.special_ability", None, "player")

AddExperience ==
    \E amount \in XpAmounts :
        /\ InBounds(add_experience(chars, "player", amount).chars)
        /\ CApply(add_experience(chars, "player", amount), "add_experience",
                  "player", None)

Rest ==
    /\ InBounds(rest(chars).chars)
    /\ CApply(rest(chars), "rest", None, "player")

HandleVictory ==
    \E enemy \in {"goblin"} \cup Bosses :
        LET r == handle_victory(chars, bosses, enemy)
        IN  /\ InBounds(r.chars)
            /\ chars' = r.chars
            /\ bosses' = r.bosses
            /\ ccall' = [op |-> "handle_victory", self |-> None,
                         target |-> enemy, ret |-> r.ret, rolls |-> 0]
            /\ UNCHANGED <<invstate, gamestate>>

UpdateQuests ==
    LET r == update_quests(chars, bosses, quests)
    IN  /\ chars' = r.chars
        /\ quests' = r.quests
        /\ ccall' = [op |-> "update_quests", self |-> None, target |-> None,
                     ret |-> r.ret, rolls |-> 0]
        /\ UNCHANGED <<invstate, bosses, combat, turn>>

\* the caller's assignment x.weapon = K() or x.weapon = None
SetWeapon ==
    \E c \in {"player", "goblin"}, w \in WeaponKinds \cup {None} :
        /\ chars' = [chars EXCEPT ![c].weapon = w]
        /\ ccall' = [op |-> "weapon", self |-> c, target |-> None,
                     ret |-> None, rolls |-> 0]
        /\ UNCHANGED <<invstate, bosses, gamestate>>

\* self.weapon.use(target)
Use ==
    \E self \in {"player", "goblin"}, target \in {"player", "goblin"} :
        /\ chars[self].weapon # None
        /\ ccall' = [op |-> "use", self |-> self, target |-> target,
                     ret |-> use(chars[self].weapon, chars[target].weapon),
                     rolls |-> 0]
        /\ UNCHANGED <<invstate, bosses, chars, gamestate>>

\* a menu's effect on the inventory, and the record of what it did
MApply(r, choice) ==
    /\ items' = r.inv.items
    /\ quantity' = r.inv.quantity
    /\ is_equipped' = r.inv.is_equipped
    /\ equipped_armor' = r.inv.equipped_armor
    /\ equipped_weapon' = r.inv.equipped_weapon
    /\ current_weight' = r.inv.current_weight
    /\ turn' = [choice |-> choice, hits |-> 0, roll |-> FALSE,
                picked |-> r.picked, ret |-> r.ret]
    /\ UNCHANGED <<objs, args_ok, call, chars, bosses, ccall, combat, quests>>

UseItem ==
    \E text \in Texts :
        /\ combat.state # "PlayerTurn"
        /\ MApply(use_item(State, text), "use_item")

UseItemInCombat ==
    \E text \in Texts :
        /\ chars["player"].health > 0
        /\ MApply(use_item_in_combat(State, text), "use_item_in_combat")

\* the enemies combat_loop is entered with
Enemies == {"goblin", "boss"}

\* the texts the pass reads after the choice, and the rolls it draws
TextsOf(choice) == IF choice = "3" THEN Texts ELSE {None}

FleeRolls(choice) == IF choice = "4" THEN BOOLEAN ELSE {FALSE}

\* setup_game filling the inventory before any combat
Stock ==
    /\ combat.state = "NoCombat"
    /\ Len(items) < MaxStock
    /\ AddItem

\* combat_loop entered by random_encounter with a new Goblin, or with the
\* boss; start_game leaves its loop once the player is dead, and a
\* combat_loop with a dead enemy returns at once, changing nothing
EnterCombat ==
    \E enemy \in Enemies :
        LET met == IF enemy = "goblin"
                   THEN [chars EXCEPT !["goblin"] = Constructed["goblin"]]
                   ELSE chars
        IN  /\ combat.state \notin {"PlayerTurn", "Raised"}
            /\ is_alive(chars, "player")
            /\ is_alive(met, enemy)
            /\ chars' = met
            /\ combat.n < MaxCombats
            /\ combat' = [state |-> "PlayerTurn", enemy |-> enemy,
                          xp0 |-> chars["player"].experience,
                          n |-> combat.n + 1]
            /\ turn' = NoTurn
            /\ UNCHANGED <<invstate, bosses, ccall, quests>>

\* one pass of the loop of combat_loop
Turn ==
    /\ combat.state = "PlayerTurn"
    /\ \E choice \in Choices :
        \E text \in TextsOf(choice), roll \in FleeRolls(choice),
           crit \in Rolls(combat.enemy) :
            LET r == combat_loop(chars, bosses, State, combat.enemy, choice,
                                 text, roll, crit)
            IN  /\ InBounds(r.chars)
                /\ chars' = r.chars
                /\ bosses' = r.bosses
                /\ items' = r.inv.items
                /\ quantity' = r.inv.quantity
                /\ is_equipped' = r.inv.is_equipped
                /\ equipped_armor' = r.inv.equipped_armor
                /\ equipped_weapon' = r.inv.equipped_weapon
                /\ current_weight' = r.inv.current_weight
                /\ combat' = [combat EXCEPT !.state = r.state]
                /\ turn' = [choice |-> choice, hits |-> r.hits, roll |-> roll,
                            picked |-> r.picked, ret |-> r.ret]
                /\ UNCHANGED <<objs, args_ok, call, ccall, quests>>

\* the healths a combat is entered with
StartHealths == {1, 5, 15, 16, 40, 100}

\* the characters as a combat finds them: the player armed, the enemies
\* at one health
Start(hp, he) ==
    [Armed EXCEPT !["player"].health = hp, !["goblin"].health = he,
                  !["boss"].health = he]

\* combat_loop(enemy) entered with the characters as they stand; the loop's
\* condition holds
EnterLoop ==
    \E enemy \in Enemies :
        /\ combat.state = "NoCombat"
        /\ is_alive(chars, "player")
        /\ is_alive(chars, enemy)
        /\ combat' = [state |-> "PlayerTurn", enemy |-> enemy,
                      xp0 |-> chars["player"].experience, n |-> 1]
        /\ UNCHANGED <<invstate, chars, bosses, ccall, turn, quests>>

\* one pass of the loop of combat_loop in which the player types "1"
AttackTurn ==
    /\ combat.state = "PlayerTurn"
    /\ \E crit \in Rolls(combat.enemy) :
        LET r == combat_loop(chars, bosses, State, combat.enemy, "1", None,
                             FALSE, crit)
        IN  /\ InBounds(r.chars)
            /\ chars' = r.chars
            /\ bosses' = r.bosses
            /\ combat' = [combat EXCEPT !.state = r.state]
            /\ turn' = [choice |-> "1", hits |-> r.hits, roll |-> FALSE,
                        picked |-> r.picked, ret |-> r.ret]
            /\ UNCHANGED <<invstate, ccall, quests>>

\* handle_boss_battles calling Game.combat(self.player, boss); the loop's
\* condition holds
EnterBattle ==
    /\ combat.state = "NoCombat"
    /\ InRoster(bosses, "boss")
    /\ get_health(chars, "player") > 0
    /\ get_health(chars, "boss") > 0
    /\ combat' = [state |-> "AutoFight", enemy |-> "boss",
                  xp0 |-> chars["player"].experience, n |-> 1]
    /\ UNCHANGED <<invstate, chars, bosses, ccall, turn, quests>>

\* one pass of the loop of Game.combat
Round ==
    /\ combat.state = "AutoFight"
    /\ \E crit \in Rolls(combat.enemy) :
        LET r == Game_combat(chars, "player", combat.enemy, crit)
        IN  /\ InBounds(r.chars)
            /\ chars' = r.chars
            /\ combat' = [combat EXCEPT !.state = r.state]
            /\ turn' = [choice |-> "combat", hits |-> r.hits, roll |-> FALSE,
                        picked |-> None, ret |-> None]
            /\ UNCHANGED <<invstate, bosses, ccall, quests>>

\* the calls made on the combatants
NextFight ==
    \/ TakeDamage(Characters)
    \/ SetHealth
    \/ Attack
    \/ LevelUp
    \/ Special
    \/ Heal

\* the calls that change the player between fights
NextGrowth ==
    \/ AddExperience
    \/ HandleVictory
    \/ Rest
    \/ TakeDamage({"player"})
    \/ SetHealth
    \/ Special
    \/ Heal

\* arming the characters and using the weapons
NextWeapon ==
    \/ SetWeapon
    \/ Use

\* filling the inventory and answering the item menus
NextMenu ==
    \/ AddItem
    \/ RemoveItem
    \/ UseItem
    \/ UseItemInCombat

\* the combats of a game
NextCombat ==
    \/ Stock
    \/ EnterCombat
    \/ Turn

\* the victories, rests and quest updates of game_loop
NextQuests ==
    \/ HandleVictory
    \/ Rest
    \/ UpdateQuests

\* the combats in which the player only attacks
NextDuel ==
    \/ EnterLoop
    \/ AttackTurn
    \/ EnterBattle
    \/ Round

InitFight == Init({}, Armed)

InitGrowth == Init({}, Constructed)

InitWeapon == Init({}, Constructed)

SpecFight == InitFight /\ [][NextFight]_vars

SpecGrowth == InitGrowth /\ [][NextGrowth]_vars

SpecWeapon == InitWeapon /\ [][NextWeapon]_vars

InitMenu == Init(EquipObjs, Constructed)

SpecMenu == InitMenu /\ [][NextMenu]_vars

\* the game once earlier blows have brought the boss down to 30
Wounded == [Armed EXCEPT !["boss"].health = 30]

InitCombat == Init({"tonic"}, Wounded)

SpecCombat == InitCombat /\ [][NextCombat]_vars

InitQuests == Setup({}, Constructed, Roster)

SpecQuests == InitQuests /\ [][NextQuests]_vars

InitDuel ==
    \E hp \in StartHealths, he \in StartHealths :
        Setup({}, Start(hp, he), <<"boss">>)

\* the game is one thread that runs a loop it has entered pass after pass
SpecDuel ==
    /\ InitDuel
    /\ [][NextDuel]_vars
    /\ WF_vars(AttackTurn)
    /\ WF_vars(Round)

---------------------------------------------------------------------------
(* Properties *)

\* the names of the consumables held
ConsumableNames(s) ==
    {name(s.items[i]) : i \in {j \in 1..Len(s.items) :
                                   item_type(s.items[j]) = "CONSUMABLE"}}

\* C1: after any sequence of add_item / remove_item calls, also with an
\* object that is already held, current_weight equals get_total_weight().
C1_WeightEqualsTotal == current_weight = get_total_weight(State)

\* C2: current_weight never exceeds MAX_WEIGHT.
C2_WeightWithinCapacity == current_weight <= MAX_WEIGHT

\* C3: as long as every item passed in had 1 <= quantity <= max_stack,
\* every held entry has 1 <= quantity <= max_stack.
C3_QuantityWithinStack ==
    args_ok =>
        \A i \in 1..Len(items) :
            1 <= quantity[items[i]] /\ quantity[items[i]] <= max_stack(items[i])

\* C4: the number of distinct consumable names held never exceeds
\* MAX_CONSUMABLES.
C4_ConsumableTypesCapped ==
    Cardinality(ConsumableNames(State)) <= MAX_CONSUMABLES

\* C4 witness: three consumable names are held and a consumable of a
\* fourth name, light enough to pass the weight check, has just been refused.
C4_FourthTypeRefused ==
    /\ Cardinality(ConsumableNames(State)) = MAX_CONSUMABLES
    /\ call.op = "add_item" /\ call.ret = FALSE
    /\ call.arg \in Consumables
    /\ name(call.arg) \notin ConsumableNames(State)
    /\ ~WeightExceeded(State, call.arg)

\* C5: a call of add_item that returns False leaves the item list, every
\* quantity, current_weight, the equip slots and the flags as they were.
C5_FailedAddChangesNothing ==
    [][(call'.op = "add_item" /\ call'.ret = FALSE) =>
          UNCHANGED <<items, quantity, current_weight, equipped_armor,
                      equipped_weapon, is_equipped>>]_vars

\* C5 witness: add_item has just returned False on a non-empty inventory
\* for an item the weight check lets through, that is by the consumable cap.
C5_AddRefusedByCap ==
    /\ call.op = "add_item" /\ call.ret = FALSE
    /\ items # <<>>
    /\ ~WeightExceeded(State, call.arg)
    /\ CapReached(State)

\* the inventory's fields and the objects' mutable fields
invvars ==
    <<items, quantity, current_weight, equipped_armor, equipped_weapon,
      is_equipped>>

\* C6: every item an armor slot or the weapon slot references is in the
\* item collection.
C6_EquippedItemsHeld ==
    /\ \A at \in ArmorType :
          equipped_armor[at] # None => In(State, equipped_armor[at])
    /\ equipped_weapon # None => In(State, equipped_weapon)

\* what C7 says of one held item: e is the result of equipping it, u the
\* result of unequipping its slot after that, slot reads the slot
RoundTrip(item, e, u, slotOfE, slotOfU) ==
    /\ e.ret /\ u.ret
    /\ slotOfE = item /\ e.is_equipped[item]
    /\ slotOfU = None /\ ~u.is_equipped[item]
    /\ Held(StateOf(e), item) /\ Held(StateOf(u), item)
    /\ e.items = items /\ u.items = items
    /\ e.quantity = quantity /\ u.quantity = quantity
    /\ e.current_weight = current_weight /\ u.current_weight = current_weight

\* C7: for a held armor or weapon, equip followed by unequip of its slot
\* leaves the slot empty and the item's flag False, and the item stays in
\* the collection with its quantity and current_weight unchanged, between
\* the two calls and after them.
C7_EquipUnequipRoundTrip ==
    /\ \A armor \in Armors \cap objs :
          Held(State, armor) =>
              LET e == equip_armor(State, armor)
                  u == unequip_armor(StateOf(e), armor_type(armor))
              IN  RoundTrip(armor, e, u,
                            e.equipped_armor[armor_type(armor)],
                            u.equipped_armor[armor_type(armor)])
    /\ \A weapon \in Weapons \cap objs :
          Held(State, weapon) =>
              LET e == equip_weapon(State, weapon)
                  u == unequip_weapon(StateOf(e))
              IN  RoundTrip(weapon, e, u, e.equipped_weapon, u.equipped_weapon)

\* C7 witness: a held helmet has been equipped and its slot unequipped.
C7_HelmetUnequipped ==
    /\ call = [op |-> "unequip_armor", arg |-> "HELMET", ret |-> TRUE]
    /\ Held(State, "helmet") /\ ~is_equipped["helmet"]
    /\ equipped_armor["HELMET"] = None

\* what C8 says of a successful equip on an occupied slot: p is the
\* previous occupant, e the result, slot the slot after the call
Replaced(item, p, e, slot) ==
    /\ slot = item /\ e.is_equipped[item]
    /\ Held(State, p) => Held(StateOf(e), p)
    /\ e.items = items /\ e.current_weight = current_weight

\* C8 as stated: after a successful equip on an occupied slot the slot
\* holds the new item, flagged, the previous occupant is not flagged and is
\* still in the collection, the list and current_weight are unchanged.
C8_PreviousOccupantUnflagged ==
    /\ \A armor \in Armors \cap objs :
          LET p == equipped_armor[armor_type(armor)]
              e == equip_armor(State, armor)
          IN  (e.ret /\ p # None) =>
                  /\ Replaced(armor, p, e, e.equipped_armor[armor_type(armor)])
                  /\ ~e.is_equipped[p]
    /\ \A weapon \in Weapons \cap objs :
          LET p == equipped_weapon
              e == equip_weapon(State, weapon)
          IN  (e.ret /\ p # None) =>
                  /\ Replaced(weapon, p, e, e.equipped_weapon)
                  /\ ~e.is_equipped[p]

\* C8 amended: the previous occupant is not flagged when it is another
\* object than the item equipped.
C8_OtherOccupantUnflagged ==
    /\ \A armor \in Armors \cap objs :
          LET p == equipped_armor[armor_type(armor)]
              e == equip_armor(State, armor)
          IN  (e.ret /\ p # None) =>
                  /\ Replaced(armor, p, e, e.equipped_armor[armor_type(armor)])
                  /\ p # armor => ~e.is_equipped[p]
    /\ \A weapon \in Weapons \cap objs :
          LET p == equipped_weapon
              e == equip_weapon(State, weapon)
          IN  (e.ret /\ p # None) =>
                  /\ Replaced(weapon, p, e, e.equipped_weapon)
                  /\ p # weapon => ~e.is_equipped[p]

\* C8 witness: helmetB has been equipped while helmet, still held, has
\* lost its flag.
C8_HelmetReplaced ==
    /\ call = [op |-> "equip_armor", arg |-> "helmetB", ret |-> TRUE]
    /\ equipped_armor["HELMET"] = "helmetB" /\ is_equipped["helmetB"]
    /\ Held(State, "helmet") /\ Held(State, "helmetB")
    /\ ~is_equipped["helmet"]

\* the call made in this step is about an item that is not in the
\* collection, or about an empty slot
CallOnAbsent ==
    \/ /\ call'.op \in {"remove_item", "equip_armor", "equip_weapon",
                        "use_consumable"}
       /\ ~In(State, call'.arg)
    \/ /\ call'.op = "unequip_armor"
       /\ equipped_armor[call'.arg] = None
    \/ /\ call'.op = "unequip_weapon"
       /\ equipped_weapon = None

\* C9: remove_item, equip_armor, equip_weapon and use_consumable on an item
\* that is not in the collection, and unequip_armor / unequip_weapon on an
\* empty slot, return False and change nothing.
C9_AbsentItemIsNoOp ==
    [][CallOnAbsent => (call'.ret = FALSE /\ UNCHANGED invvars)]_vars

\* C9 witness: equip_weapon has been refused for a weapon that is not in
\* the non-empty collection, while the other weapon is equipped.
C9_EquipOfAbsentRefused ==
    /\ call.op = "equip_weapon" /\ call.ret = FALSE
    /\ ~In(State, call.arg)
    /\ items # <<>>
    /\ equipped_weapon # None

\* C10: remove_item(item, q) on a held entry of quantity n returns True;
\* when n > q the entry stays with quantity n - q and current_weight drops
\* by weight x q, otherwise the entry leaves the list and current_weight
\* drops by weight x n; no other entry changes.
C10_RemoveItemEffect ==
    \A item \in objs, q \in 1..MaxRemove :
        LET i == MatchIndex(State, item)
            r == remove_item(State, item, q)
        IN  i # 0 =>
              LET n == quantity[items[i]]
              IN  /\ r.ret
                  /\ IF n > q
                     THEN /\ r.items = items
                          /\ r.quantity[items[i]] = n - q
                          /\ r.current_weight = current_weight - weight(item) * q
                          /\ \A j \in 1..Len(items) :
                                j # i => r.quantity[items[j]] = quantity[items[j]]
                     ELSE /\ r.items = RemoveAt(items, i)
                          /\ r.current_weight = current_weight - weight(item) * n
                          /\ \A j \in 1..Len(r.items) :
                                r.quantity[r.items[j]] = quantity[r.items[j]]

\* the units held under one name: the quantities of the entries of that
\* name, added up over the list
RECURSIVE HeldQuantity(_, _, _)
HeldQuantity(s, seq, nm) ==
    IF seq = <<>> THEN 0
    ELSE (IF name(Head(seq)) = nm THEN s.quantity[Head(seq)] ELSE 0)
         + HeldQuantity(s, Tail(seq), nm)

\* C11: use_consumable on a held consumable returns True and removes one
\* unit: the quantity held of that consumable drops by 1 (the entry leaves
\* the list when it held 1), current_weight drops by one unit's weight, and
\* no other entry changes.
C11_UseRemovesOneUnit ==
    \A consumable \in Consumables \cap objs :
        LET i == MatchIndex(State, consumable)
            r == use_consumable(State, consumable)
        IN  i # 0 =>
              /\ r.ret
              /\ HeldQuantity(r, r.items, name(consumable))
                     = HeldQuantity(State, items, name(consumable)) - 1
              /\ r.current_weight = current_weight - weight(consumable)
              /\ IF quantity[items[i]] = 1
                 THEN /\ r.items = RemoveAt(items, i)
                      /\ \A j \in 1..Len(r.items) :
                            r.quantity[r.items[j]] = quantity[r.items[j]]
                 ELSE /\ r.items = items
                      /\ r.quantity[items[i]] = quantity[items[i]] - 1
                      /\ \A j \in 1..Len(items) :
                            j # i => r.quantity[items[j]] = quantity[items[j]]

\* C12: add_item of a consumable that merges into a held entry of the same
\* name with quantity < max_stack returns True, leaves the number of
\* entries unchanged, raises that entry's quantity by the quantity of the
\* item added, and raises current_weight by the weight of the units added.
C12_MergeEffect ==
    \A item \in Consumables \cap objs :
        LET i == StackIndex(State, item)
            r == add_item(State, item)
        IN  (i # 0 /\ ~WeightExceeded(State, item)) =>
              /\ r.ret
              /\ Len(r.items) = Len(items)
              /\ r.quantity[items[i]] = quantity[items[i]] + quantity[item]
              /\ r.current_weight = current_weight + weight(item) * quantity[item]

\* C13: the health of a character is never negative, whatever take_damage,
\* set_health, attack (a Boss's double strike included), level_up and the
\* special abilities have done, and a blow larger than the health leaves 0.
C13_HealthNeverNegative ==
    /\ \A c \in Characters : chars[c].health >= 0
    /\ \A c \in Characters, amount \in DamageAmounts :
          amount > chars[c].health =>
              take_damage(chars, c, amount).chars[c].health = 0

\* C13 witness: a blow by take_damage has brought the player, who was
\* levelled up before, to 0.
C13_PlayerStruckDown ==
    /\ ccall.op = "take_damage" /\ ccall.self = "player"
    /\ chars["player"].level = 2
    /\ chars["player"].health = 0

\* base damage plus the bonus of the weapon held, 0 without a weapon
DamageOf(cs, c) ==
    cs[c].damage + (IF cs[c].weapon = None THEN 0
                    ELSE damage_bonus(cs[c].weapon))

\* C14: Character.attack returns d = base damage + weapon bonus (0 without
\* a weapon) and leaves the target at max(0, health - d), also when the
\* target had less than d; the player with 100 HP, damage 10 and a Rock
\* deals 15 to a Goblin of 30 HP and leaves it at 15.
C14_AttackDealsDamagePlusBonus ==
    /\ \A self \in Characters, enemy \in Characters :
          LET r == Character_attack(chars, self, enemy)
              d == DamageOf(chars, self)
          IN  /\ r.ret = d
              /\ r.chars[enemy].health = Max(0, chars[enemy].health - d)
    /\ Character_attack(Armed, "player", "goblin").ret = 15
    /\ Character_attack(Armed, "player", "goblin").chars["goblin"].health = 15

\* C14 witness: the player, at level 2 with the Rock, has attacked a Goblin
\* that had less than 17 HP: 17 is returned and the Goblin is at 0.
C14_OverkillReturnsFullDamage ==
    /\ ccall.op = "attack" /\ ccall.self = "player" /\ ccall.target = "goblin"
    /\ ccall.ret = 17 /\ ccall.rolls = 0
    /\ chars["goblin"].health = 0

\* C15: a step of attack on another character changes the target's health
\* and nothing else: not the inventory, not the attacker, not any third
\* character, not the target's damage, level, experience or weapon.
C15_AttackChangesOnlyTargetHealth ==
    [][ccall'.op = "attack" =>
          /\ UNCHANGED <<invstate, bosses>>
          /\ \A c \in Characters :
                c # ccall'.target => chars'[c] = chars[c]
          /\ chars'[ccall'.target] =
                 [chars[ccall'.target] EXCEPT
                      !.health = chars'[ccall'.target].health]]_vars

\* C15 witness: the Goblin has attacked the player, who lost 5 HP, and is
\* itself as it was constructed.
C15_GoblinHitPlayer ==
    /\ ccall.op = "attack" /\ ccall.self = "goblin" /\ ccall.target = "player"
    /\ ccall.ret = 5 /\ ccall.rolls = 0
    /\ chars["player"].health = 95
    /\ chars["goblin"] = Armed["goblin"]

\* C16: the health of the player never exceeds the ceiling of 100.
C16_PlayerHealthWithinCeiling == chars["player"].health <= HEALTH_CEILING

C18_LevelFollowsExperience ==
    /\ chars["player"].level = 1 + chars["player"].experience \div 100
    /\ \A amount \in XpAmounts :
          LET r == add_experience(chars, "player", amount).chars["player"]
          IN  /\ r.level = 1 + r.experience \div 100
              /\ r.experience \div 100 = chars["player"].experience \div 100
                    => /\ r.level = chars["player"].level
                       /\ r.health = chars["player"].health
                       /\ r.damage = chars["player"].damage
    /\ add_experience(Constructed, "player", 250).chars["player"].level = 3

\* C19: Boss.attack with d = damage + weapon bonus makes one roll; when the
\* roll succeeds the target is left at max(0, h - 2d) and 2d is returned
\* (100 for d = 50), when it fails the target is left at max(0, h - d) and
\* d is returned.
C19_BossAttack ==
    \A enemy \in Characters :
        LET d == DamageOf(chars, "boss")
            h == chars[enemy].health
            hit == Boss_attack(chars, "boss", enemy, TRUE)
            miss == Boss_attack(chars, "boss", enemy, FALSE)
        IN  /\ hit.chars[enemy].health = Max(0, h - 2 * d)
            /\ hit.ret = 2 * d
            /\ d = 50 => hit.ret = 100
            /\ hit.rolls = 1
            /\ miss.chars[enemy].health = Max(0, h - d)
            /\ miss.ret = d
            /\ miss.rolls = 1

\* C19 witness: the Boss has struck the player twice: 100 is returned and
\* the player, who had 110 HP at level 2, is left at 10.
C19_DoubleStrike ==
    /\ ccall.op = "attack" /\ ccall.self = "boss" /\ ccall.target = "player"
    /\ ccall.ret = 100 /\ ccall.rolls = 1
    /\ chars["player"].level = 2
    /\ chars["player"].health = 10

\* the kinds whose holder a weapon of kind a scores a critical hit on
Beats(a) == {b \in WeaponKinds : use(a, b) = CriticalHit}

\* the kinds that score a critical hit on the holder of a weapon of kind b
BeatenBy(b) == {a \in WeaponKinds : use(a, b) = CriticalHit}

\* the kinds of the weapons the characters hold
HeldKinds == {chars[c].weapon : c \in Characters} \ {None}

\* C20: every kind, whichever the characters hold, beats exactly two other
\* kinds and is beaten by exactly two other kinds.
C20_EveryKindBeatsTwo ==
    \A k \in HeldKinds :
        /\ Cardinality(Beats(k) \ {k}) = 2
        /\ Cardinality(BeatenBy(k) \ {k}) = 2

\* C20 amended: Scissors, Lizard and Spock beat exactly two other kinds,
\* Rock beats only Scissors and Paper only Rock; Rock, Paper and Scissors
\* are beaten by exactly two other kinds, Lizard and Spock by exactly one;
\* no kind beats itself.
C20_BeatsOneOrTwo ==
    \A k \in HeldKinds :
        /\ k \notin Beats(k)
        /\ Cardinality(Beats(k)) = (IF k \in {"Rock", "Paper"} THEN 1 ELSE 2)
        /\ Cardinality(BeatenBy(k)) = (IF k \in {"Lizard", "Spock"} THEN 1 ELSE 2)
        /\ k = "Rock" => Beats(k) = {"Scissors"}
        /\ k = "Paper" => Beats(k) = {"Rock"}

\* C20 witness: the player has used the Rock on the Goblin that holds the
\* Lizard, and no critical hit came of it.
C20_RockOnLizardIsPlain ==
    /\ ccall.op = "use" /\ ccall.self = "player" /\ ccall.target = "goblin"
    /\ ccall.ret = Plain /\ ccall.rolls = 0
    /\ chars["player"].weapon = "Rock"
    /\ chars["goblin"].weapon = "Lizard"

\* the two characters that are armed and use their weapons
Armable == {"player", "goblin"}

\* C21: for every weapon kind A and every B that is a kind or no weapon,
\* use() of A on a holder of B yields one of the three verdicts, and when
\* A scores a critical hit on B, B does not score one on A.
C21_TotalAndAntisymmetric ==
    /\ ccall.op = "use" => ccall.ret \in {CriticalHit, NotVeryEffective, Plain}
    /\ \A self \in Armable, target \in Armable :
          LET A == chars[self].weapon
              B == chars[target].weapon
          IN  A # None =>
                /\ use(A, B) \in {CriticalHit, NotVeryEffective, Plain}
                /\ (B # None /\ use(A, B) = CriticalHit)
                       => use(B, A) # CriticalHit

\* C21 witness: the player has used the Scissors on the Goblin, which holds
\* no weapon, and the verdict is the plain one.
C21_ScissorsOnUnarmed ==
    /\ ccall.op = "use" /\ ccall.self = "player" /\ ccall.target = "goblin"
    /\ ccall.ret = Plain
    /\ chars["player"].weapon = "Scissors"
    /\ chars["goblin"].weapon = None

\* the table of the kinds each kind beats
BeatsTable(k) ==
    CASE k = "Rock" -> {"Scissors"}
      [] k = "Paper" -> {"Rock"}
      [] k = "Scissors" -> {"Paper", "Lizard"}
      [] k = "Lizard" -> {"Spock", "Paper"}
      [] k = "Spock" -> {"Rock", "Scissors"}

\* the table of the kinds each kind loses to
LosesTable(k) ==
    CASE k = "Rock" -> {"Paper"}
      [] k = "Paper" -> {"Scissors"}
      [] k = "Scissors" -> {"Rock", "Spock"}
      [] k = "Lizard" -> {"Rock", "Scissors"}
      [] k = "Spock" -> {"Lizard", "Paper"}

\* the verdict the table gives A against B
TableVerdict(A, B) ==
    IF B \in BeatsTable(A) THEN CriticalHit
    ELSE IF B \in LosesTable(A) THEN NotVeryEffective
    ELSE Plain

\* C22: the verdict of use() equals the table for every pair: critical hit
\* on the kinds A beats, not very effective on the kinds A loses to, plain
\* on every other pair, a kind against itself and against no weapon
\* included.
C22_VerdictEqualsTable ==
    /\ \A self \in Armable, target \in Armable :
          chars[self].weapon # None =>
              use(chars[self].weapon, chars[target].weapon)
                  = TableVerdict(chars[self].weapon, chars[target].weapon)
    /\ ccall.op = "use" =>
          ccall.ret = TableVerdict(chars[ccall.self].weapon,
                                   chars[ccall.target].weapon)

\* C22 witness: the Goblin has used the Lizard on the player, who holds the
\* Rock: not very effective.
C22_LizardOnRock ==
    /\ ccall.op = "use" /\ ccall.self = "goblin" /\ ccall.target = "player"
    /\ ccall.ret = NotVeryEffective
    /\ chars["goblin"].weapon = "Lizard"
    /\ chars["player"].weapon = "Rock"

\* the text is a number in 1..n
InRange(text, n) == IsNumber(text) /\ 1 <= int(text) /\ int(text) <= n

\* C30: in use_item and use_item_in_combat a selection that is not a number
\* in 1..N, N being the number of items listed, picks no item and leaves
\* the inventory as it was.
C30_InvalidSelectionPicksNothing ==
    \A text \in Texts :
        /\ ~InRange(text, Len(items)) =>
              /\ use_item(State, text).picked = None
              /\ use_item(State, text).inv = State
        /\ ~InRange(text, Len(SelectSeq(items, IsConsumable))) =>
              /\ use_item_in_combat(State, text).picked = None
              /\ use_item_in_combat(State, text).inv = State

\* C23: in combat_loop a pass in which the player chooses "Use item",
\* whatever is typed at the item prompt, comes back to the player's turn
\* with no attack of the enemy and no character's health changed.
C23_UseItemKeepsPlayerTurn ==
    [][(combat.state = "PlayerTurn" /\ turn'.choice = "3") =>
           /\ combat'.state = "PlayerTurn"
           /\ turn'.hits = 0
           /\ \A c \in Characters : chars'[c].health = chars[c].health]_vars

\* C24: in combat_loop, a pass in which the player attacks or uses the
\* special ability ends the combat in Victory, the enemy not attacking, when
\* it leaves the enemy at health 0; otherwise the enemy attacks exactly once
\* in the pass, before the next turn of the player.
C24_EnemyAnswersOnceUnlessDefeated ==
    [][(combat.state = "PlayerTurn" /\ turn'.choice \in {"1", "2"}) =>
           IF chars'[combat.enemy].health = 0
           THEN /\ combat'.state = "Victory"
                /\ turn'.hits = 0
                /\ chars'["player"].health >= chars["player"].health
           ELSE /\ combat'.state \in {"PlayerTurn", "Defeat"}
                /\ turn'.hits = 1]_vars

\* the goblin struck once after the player's first blow, and fell to the
\* second
C24_SecondBlowWins ==
    /\ combat.state = "Victory"
    /\ combat.enemy = "goblin"
    /\ turn.choice = "1"
    /\ turn.hits = 0
    /\ chars["goblin"].health = 0
    /\ chars["player"].health = INITIAL_HEALTH - Constructed["goblin"].damage

\* C25: in combat_loop, a successful roll at "Try to flee" ends the combat
\* in Fled with no attack of the enemy, no experience gained and no health
\* changed; a failed roll is followed by exactly one attack of the enemy.
C25_FleeRollDecides ==
    [][(combat.state = "PlayerTurn" /\ turn'.choice = "4") =>
           IF turn'.roll
           THEN /\ combat'.state = "Fled"
                /\ turn'.hits = 0
                /\ chars'["player"].experience = chars["player"].experience
                /\ \A c \in Characters : chars'[c].health = chars[c].health
           ELSE /\ combat'.state \in {"PlayerTurn", "Defeat"}
                /\ turn'.hits = 1]_vars

\* the player failed to flee from the boss, took its blow and got away at
\* the second attempt
C25_FledAtSecondAttempt ==
    /\ combat.state = "Fled"
    /\ combat.enemy = "boss"
    /\ turn.choice = "4"
    /\ turn.roll
    /\ turn.hits = 0
    /\ chars["player"].health = INITIAL_HEALTH - Constructed["boss"].damage
    /\ chars["boss"].health = Wounded["boss"].health

\* C26: in combat_loop, a pass in which the enemy attacked ends the combat
\* in Defeat, with no experience awarded, when the player's health is 0, and
\* otherwise goes on with the player's turn; nothing follows a Defeat; and
\* no combat ends with the player and the enemy both at health 0.
C26_DefeatOrNextTurn ==
    [][/\ (combat.state = "PlayerTurn" /\ turn'.hits = 1) =>
              IF chars'["player"].health = 0
              THEN /\ combat'.state = "Defeat"
                   /\ chars'["player"].experience = combat.xp0
              ELSE combat'.state = "PlayerTurn"
       /\ combat.state = "Defeat" =>
              /\ combat' = combat
              /\ turn' = turn
              /\ chars' = chars
       /\ (combat.state = "PlayerTurn"
              /\ combat'.state \in {"Victory", "Defeat", "Fled"}) =>
              ~(/\ chars'["player"].health = 0
                /\ chars'[combat.enemy].health = 0)]_vars

\* the boss's double blow has struck the player down
C26_StruckDownByBoss ==
    /\ combat.state = "Defeat"
    /\ combat.enemy = "boss"
    /\ turn.hits = 1
    /\ chars["player"].health = 0
    /\ chars["boss"].health > 0
    /\ chars["player"].experience = combat.xp0

\* the experience handle_victory grants for this enemy
Reward(enemy) == IF char_class(enemy) = "Boss" THEN XP_BOSS ELSE XP_ENEMY

\* C27: a combat ending in Victory has raised the player's experience by
\* exactly 20 for an enemy that is not a Boss and by exactly 100 for a
\* Boss, in the pass that ends it and in no other; a combat ending in Defeat
\* or Fled has left the experience as it was.
C27_VictoryRewardsOnce ==
    [][combat.state = "PlayerTurn" =>
           /\ chars["player"].experience = combat.xp0
           /\ combat'.state = "Victory" =>
                  chars'["player"].experience
                      = combat.xp0 + Reward(combat.enemy)
           /\ combat'.state # "Victory" =>
                  chars'["player"].experience = combat.xp0]_vars

\* a goblin won first, then the boss
C27_BossAfterGoblin ==
    /\ combat.state = "Victory"
    /\ combat.enemy = "boss"
    /\ combat.xp0 = XP_ENEMY
    /\ chars["player"].experience = XP_ENEMY + XP_BOSS

\* C28: handle_victory over an enemy that is an entry of the roster takes
\* exactly that entry out and keeps every other; over an enemy that is not
\* (a regular enemy, or a Boss missing from the roster) it completes without
\* raising and leaves the roster as it was.
C28_RosterAfterVictory ==
    \A enemy \in Enemies :
        LET r == handle_victory(chars, bosses, enemy)
        IN  /\ r.ret = None
            /\ IF InRoster(bosses, enemy)
               THEN /\ Len(r.bosses) = Len(bosses) - 1
                    /\ \A b \in Enemies \ {enemy} :
                           InRoster(r.bosses, b) = InRoster(bosses, b)
               ELSE r.bosses = bosses

\* the quests the step completes
Flipped == {q \in Quests : ~quests[q] /\ quests'[q]}

\* the experience the rewards of these quests add up to
RECURSIVE RewardXp(_)
RewardXp(S) ==
    IF S = {} THEN 0
    ELSE LET q == CHOOSE x \in S : TRUE
         IN  reward(q).xp + RewardXp(S \ {q})

\* C29: over the calls of update_quests and the changes of the roster, no
\* quest goes back from completed, a quest is completed only in a step that
\* starts with no boss of its target's name in the roster, and the step
\* that completes it is a call of update_quests that ends normally and
\* adds the quest's reward; a call that completes no quest adds nothing.
C29_QuestsCompleteOnceWithReward ==
    [][/\ \A q \in Quests : quests[q] => quests'[q]
       /\ \A q \in Flipped : NoBossNamed(bosses, q)
       /\ Flipped # {} =>
              /\ ccall'.op = "update_quests"
              /\ ccall'.ret = None
              /\ chars'["player"].experience
                     = chars["player"].experience + RewardXp(Flipped)
       /\ (ccall'.op = "update_quests" /\ Flipped = {}) =>
              chars'["player"].experience = chars["player"].experience]_vars

\* C31: after every add_experience with an amount that is not negative the
\* player's experience is below level x 100, so that the level-up check
\* handle_victory makes right after its add_experience finds nothing to do.
C31_NoThresholdLeftUncrossed ==
    /\ ccall.op = "add_experience" =>
           chars["player"].experience
               < chars["player"].level * XP_PER_LEVEL
    /\ \A amount \in XpAmounts :
           LET after == add_experience(chars, "player", amount).chars
           IN  after["player"].experience
                   < after["player"].level * XP_PER_LEVEL
    /\ \A enemy \in Enemies :
           handle_victory(chars, bosses, enemy).chars
               = add_experience(chars, "player", Reward(enemy)).chars

\* one call has taken the player over two thresholds
C31_TwoThresholdsInOneCall ==
    /\ ccall.op = "add_experience"
    /\ ccall.self = "player"
    /\ chars["player"].experience = 250
    /\ chars["player"].level = 3

C33_CriticalIffNotVeryEffective ==
    \A self \in Armable, target \in Armable :
        LET A == chars[self].weapon
            B == chars[target].weapon
        IN  (A # None /\ B # None) =>
                (use(A, B) = CriticalHit <=> use(B, A) = NotVeryEffective)

\* one of the kinds is Rock or Paper and the other Lizard or Spock
Across(A, B) ==
    \/ A \in {"Rock", "Paper"} /\ B \in {"Lizard", "Spock"}
    \/ A \in {"Lizard", "Spock"} /\ B \in {"Rock", "Paper"}

\* C33 amended: the equivalence holds for every pair of kinds but those of
\* Rock or Paper with Lizard or Spock; there Rock and Paper give the plain
\* verdict, while Lizard is not very effective on Rock and critical on
\* Paper, and Spock is critical on Rock and not very effective on Paper.
C33_ConsistentButAcross ==
    \A self \in Armable, target \in Armable :
        LET A == chars[self].weapon
            B == chars[target].weapon
        IN  (A # None /\ B # None) =>
                /\ ~Across(A, B) =>
                       (use(A, B) = CriticalHit
                            <=> use(B, A) = NotVeryEffective)
                /\ (A \in {"Rock", "Paper"} /\ B \in {"Lizard", "Spock"}) =>
                       /\ use(A, B) = Plain
                       /\ use(B, A) =
                              IF (A = "Rock") = (B = "Lizard")
                              THEN NotVeryEffective
                              ELSE CriticalHit

\* Spock, used on the holder of the Paper, is not very effective, and the
\* Paper on Spock would be plain
C33_SpockOnPaper ==
    /\ ccall.op = "use"
    /\ ccall.self = "player"
    /\ ccall.target = "goblin"
    /\ chars["player"].weapon = "Spock"
    /\ chars["goblin"].weapon = "Paper"
    /\ ccall.ret = NotVeryEffective
    /\ use("Paper", "Spock") = Plain

\* the characters, the defender holding this weapon or none
Holding(cs, c, w) == [cs EXCEPT ![c].weapon = w]

\* C34: an attack returns the same damage and takes the same health from
\* the target whatever weapon kind the target holds, or none: the matchup
\* has no part in the damage.
C34_DamageIgnoresDefenderWeapon ==
    \A self \in Characters :
        \A enemy \in Opponents(self), roll \in Rolls(self),
           w \in WeaponKinds \cup {None} :
            LET as_is == attack(chars, self, enemy, roll)
                other == attack(Holding(chars, enemy, w), self, enemy, roll)
            IN  /\ other.ret = as_is.ret
                /\ other.chars[enemy].health = as_is.chars[enemy].health
                /\ other.chars[self] = as_is.chars[self]

\* the goblin has struck the player, who holds the Rock, for its 5, as it
\* would a player holding any other weapon or none
C34_GoblinStrikesRockHolder ==
    /\ ccall.op = "attack"
    /\ ccall.self = "goblin"
    /\ ccall.target = "player"
    /\ chars["player"].weapon = "Rock"
    /\ ccall.ret = Constructed["goblin"].damage
    /\ chars["player"].health
           = INITIAL_HEALTH - Constructed["goblin"].damage

\* C35: in every state the player reaches, level-ups and a healer's heals
\* included, Player.special_ability leaves the player's health no lower
\* than it found it.
C35_SecondWindNeverLowers ==
    /\ Player_special_ability(chars, "player").chars["player"].health
           >= chars["player"].health
    /\ special_ability(chars, "player").chars["player"].health
           >= chars["player"].health

\* an equip slot of the inventory references the object
Slotted(o) ==
    \/ \E at \in ArmorType : equipped_armor[at] = o
    \/ equipped_weapon = o

\* C36: in every state a sequence of operations on the inventory reaches,
\* an armor or a weapon is flagged is_equipped if and only if an equip slot
\* references it, an armor slot references nothing or an armor of the
\* slot's type, and the weapon slot nothing or a weapon.
C36_FlagIffSlotted ==
    /\ \A o \in Armors \cup Weapons : is_equipped[o] <=> Slotted(o)
    /\ \A at \in ArmorType :
           equipped_armor[at] # None =>
               /\ equipped_armor[at] \in Armors
               /\ armor_type(equipped_armor[at]) = at
    /\ equipped_weapon # None => equipped_weapon \in Weapons

\* the sword has been removed while equipped: it is no longer held, the
\* weapon slot still references it and it is still flagged
C36_EquippedSwordRemoved ==
    /\ call = [op |-> "remove_item", arg |-> "sword", ret |-> TRUE]
    /\ ~Held(State, "sword")
    /\ equipped_weapon = "sword"
    /\ is_equipped["sword"]

=============================================================================
